---------------------------- MODULE Spec2Model ----------------------------
(***************************************************************************)
(* aws-mocker: mock.Run (pkg/mock/mock.go), the file writer                *)
(* (pkg/writer/writer.go) and the entry point (main.go).                   *)
(*                                                                         *)
(* Go strings are modelled as sequences of one-character strings, so that  *)
(* strings.Split, regexp matching, byte-wise comparison and title-casing   *)
(* are computed on the characters.                                         *)
(***************************************************************************)
EXTENDS Integers, Sequences, FiniteSets, TLC

(***************************************************************************)
(* Bounds of the model.                                                    *)
(***************************************************************************)
\* number of packages packages.Load may return
MaxPkgs == 2
\* number of function references accepted by the extractor in one run
MaxObs == 3
\* length of the generated package short names given to ToTitle
MaxNameLen == 3

(***************************************************************************)
(* Characters and strings.                                                 *)
(***************************************************************************)
\* the ASCII characters 32 to 95
AsciiSpaceToUnderscore ==
    <<" ", "!", "\"", "#", "$", "%", "&", "'", "(", ")", "*", "+", ",", "-", ".", "/", "0", "1", "2", "3", "4", "5", "6", "7", "8", "9", ":", ";", "<", "=", ">", "?", "@", "A", "B", "C", "D", "E", "F", "G", "H", "I", "J", "K", "L", "M", "N", "O", "P", "Q", "R", "S", "T", "U", "V", "W", "X", "Y", "Z", "[", "\\", "]", "^", "_">>

\* the ASCII characters 97 to 126
AsciiLowerToTilde ==
    <<"a", "b", "c", "d", "e", "f", "g", "h", "i", "j", "k", "l", "m", "n", "o", "p", "q", "r", "s", "t", "u", "v", "w", "x", "y", "z", "{", "|", "}", "~">>

AsciiChars ==
    {AsciiSpaceToUnderscore[i] : i \in 1..Len(AsciiSpaceToUnderscore)}
        \cup {AsciiLowerToTilde[i] : i \in 1..Len(AsciiLowerToTilde)}

\* the byte value of an ASCII character
Ord ==
    [c \in AsciiChars |->
        IF \E i \in 1..Len(AsciiLowerToTilde) : AsciiLowerToTilde[i] = c
        THEN 96 + (CHOOSE i \in 1..Len(AsciiLowerToTilde) : AsciiLowerToTilde[i] = c)
        ELSE 31 + (CHOOSE i \in 1..Len(AsciiSpaceToUnderscore) :
                        AsciiSpaceToUnderscore[i] = c)]

\* the ASCII character of a byte value
Chr(n) == CHOOSE c \in AsciiChars : Ord[c] = n

\* the < of Go strings: byte-wise lexicographic order
StrLess(a, b) ==
    \E i \in 1..(Len(a) + 1) :
        /\ i <= Len(b)
        /\ \A k \in 1..(i - 1) : a[k] = b[k]
        /\ (i <= Len(a) => Ord[a[i]] < Ord[b[i]])

StrLeq(a, b) == a = b \/ StrLess(a, b)

\* unicode.ToUpper / unicode.ToLower on an ASCII character
ToUpperChar(c) == IF Ord[c] >= 97 /\ Ord[c] <= 122 THEN Chr(Ord[c] - 32) ELSE c

ToLowerChar(c) == IF Ord[c] >= 65 /\ Ord[c] <= 90 THEN Chr(Ord[c] + 32) ELSE c

\* strings.Split(s, sep) for a one-character separator: n separators give
\* n + 1 pieces, the empty string gives one empty piece
Split(s, sep) ==
    LET seps == {i \in 1..Len(s) : s[i] = sep}
        n == Cardinality(seps)
        \* the position of the k-th separator, 0 and Len(s) + 1 at the ends
        at(k) == IF k = 0 THEN 0
                 ELSE IF k = n + 1 THEN Len(s) + 1
                 ELSE CHOOSE d \in seps : Cardinality({e \in seps : e < d}) = k - 1
    IN  [k \in 1..(n + 1) |-> SubSeq(s, at(k - 1) + 1, at(k) - 1)]

\* regexp matching for the syntax the filter uses: literal characters, "."
\* (any character) and a postfix "*"; re is the rest of the pattern and i the
\* position in s
RECURSIVE MatchHere(_, _, _)
MatchHere(re, s, i) ==
    IF re = <<>> THEN TRUE
    ELSE IF Len(re) >= 2 /\ re[2] = "*"
    THEN \E j \in i..(Len(s) + 1) :
            /\ \A k \in i..(j - 1) : re[1] = "." \/ s[k] = re[1]
            /\ MatchHere(Tail(Tail(re)), s, j)
    ELSE /\ i <= Len(s)
         /\ re[1] = "." \/ s[i] = re[1]
         /\ MatchHere(Tail(re), s, i + 1)

\* (*regexp.Regexp).MatchString: an unanchored search
MatchString(re, s) == \E i \in 1..(Len(s) + 1) : MatchHere(re, s, i)

Range(s) == {s[i] : i \in 1..Len(s)}

\* slices.Contains
Contains(s, x) == \E i \in 1..Len(s) : s[i] = x

\* every reordering of the sequence s
Perms(s) ==
    LET n == Len(s)
    IN  {[i \in 1..n |-> s[f[i]]] :
            f \in {g \in [1..n -> 1..n] : \A i, j \in 1..n : g[i] = g[j] => i = j}}

(***************************************************************************)
(* Program constants of package mock.                                      *)
(***************************************************************************)
\* "github.com/aws/aws-sdk-go-v2/service/*"
filterPattern ==
    <<"g", "i", "t", "h", "u", "b", ".", "c", "o", "m", "/", "a", "w", "s", "/", "a", "w", "s", "-", "s", "d", "k", "-", "g", "o", "-", "v", "2", "/", "s", "e", "r", "v", "i", "c", "e", "/", "*">>

\* filter.MatchString(path)
filter(path) == MatchString(filterPattern, path)

\* "cloudformation"
NameCloudformation ==
    <<"c", "l", "o", "u", "d", "f", "o", "r", "m", "a", "t", "i", "o", "n">>
\* "dynamodb"
NameDynamodb ==
    <<"d", "y", "n", "a", "m", "o", "d", "b">>
\* "ec2"
NameEc2 ==
    <<"e", "c", "2">>
\* "sts"
NameSts ==
    <<"s", "t", "s">>
\* "CloudFormation"
TitleCloudFormation ==
    <<"C", "l", "o", "u", "d", "F", "o", "r", "m", "a", "t", "i", "o", "n">>
\* "DynamoDB"
TitleDynamoDB ==
    <<"D", "y", "n", "a", "m", "o", "D", "B">>
\* "EC2"
TitleEC2 ==
    <<"E", "C", "2">>
\* "STS"
TitleSTS ==
    <<"S", "T", "S">>

serviceNames ==
    (NameCloudformation :> TitleCloudFormation) @@ (NameDynamodb :> TitleDynamoDB)
        @@ (NameEc2 :> TitleEC2) @@ (NameSts :> TitleSTS)

\* cases.Title(language.English).String(s) for a one-word identifier of
\* ASCII letters and digits: the first letter upper-cased, the rest lower-cased
Title(s) ==
    [i \in 1..Len(s) |-> IF i = 1 THEN ToUpperChar(s[i]) ELSE ToLowerChar(s[i])]

\* a ToTitle that skips the override table
ToTitleNoOverride(s) == Title(s)

\* the template function "ToTitle"
ToTitle(s) == IF s \in DOMAIN serviceNames THEN serviceNames[s] ELSE Title(s)

(***************************************************************************)
(* The resolved references of the scanned source (types.Info.Uses): the    *)
(* objects the identifiers of a package may resolve to.                    *)
(***************************************************************************)
\* "github.com/aws/aws-sdk-go-v2/service/sts"
PathSts ==
    <<"g", "i", "t", "h", "u", "b", ".", "c", "o", "m", "/", "a", "w", "s", "/", "a", "w", "s", "-", "s", "d", "k", "-", "g", "o", "-", "v", "2", "/", "s", "e", "r", "v", "i", "c", "e", "/", "s", "t", "s">>
\* "github.com/aws/aws-sdk-go-v2/service/dynamodb"
PathDynamodb ==
    <<"g", "i", "t", "h", "u", "b", ".", "c", "o", "m", "/", "a", "w", "s", "/", "a", "w", "s", "-", "s", "d", "k", "-", "g", "o", "-", "v", "2", "/", "s", "e", "r", "v", "i", "c", "e", "/", "d", "y", "n", "a", "m", "o", "d", "b">>
\* "log"
PathLog ==
    <<"l", "o", "g">>
\* "log"
NameLog ==
    <<"l", "o", "g">>
\* "GetCallerIdentity"
FnGetCallerIdentity ==
    <<"G", "e", "t", "C", "a", "l", "l", "e", "r", "I", "d", "e", "n", "t", "i", "t", "y">>
\* "ListTables"
FnListTables ==
    <<"L", "i", "s", "t", "T", "a", "b", "l", "e", "s">>
\* "NextPage"
FnNextPage ==
    <<"N", "e", "x", "t", "P", "a", "g", "e">>
\* "NewFromConfig"
FnNewFromConfig ==
    <<"N", "e", "w", "F", "r", "o", "m", "C", "o", "n", "f", "i", "g">>
\* "Fatalf"
FnFatalf ==
    <<"F", "a", "t", "a", "l", "f">>
\* "Error"
FnError ==
    <<"E", "r", "r", "o", "r">>
\* "Limit"
FnLimit ==
    <<"L", "i", "m", "i", "t">>
\* "Wait"
FnWait ==
    <<"W", "a", "i", "t">>
\* "Reset"
FnReset ==
    <<"R", "e", "s", "e", "t">>
\* "Decode"
FnDecode ==
    <<"D", "e", "c", "o", "d", "e">>
\* "*github.com/aws/aws-sdk-go-v2/service/sts.GetCallerIdentityOutput"
TyGetCallerIdentityOutput ==
    <<"*", "g", "i", "t", "h", "u", "b", ".", "c", "o", "m", "/", "a", "w", "s", "/", "a", "w", "s", "-", "s", "d", "k", "-", "g", "o", "-", "v", "2", "/", "s", "e", "r", "v", "i", "c", "e", "/", "s", "t", "s", ".", "G", "e", "t", "C", "a", "l", "l", "e", "r", "I", "d", "e", "n", "t", "i", "t", "y", "O", "u", "t", "p", "u", "t">>
\* "*github.com/aws/aws-sdk-go-v2/service/dynamodb.ListTablesOutput"
TyListTablesOutput ==
    <<"*", "g", "i", "t", "h", "u", "b", ".", "c", "o", "m", "/", "a", "w", "s", "/", "a", "w", "s", "-", "s", "d", "k", "-", "g", "o", "-", "v", "2", "/", "s", "e", "r", "v", "i", "c", "e", "/", "d", "y", "n", "a", "m", "o", "d", "b", ".", "L", "i", "s", "t", "T", "a", "b", "l", "e", "s", "O", "u", "t", "p", "u", "t">>
\* "*github.com/aws/aws-sdk-go-v2/service/dynamodb.ScanOutput"
TyScanOutput ==
    <<"*", "g", "i", "t", "h", "u", "b", ".", "c", "o", "m", "/", "a", "w", "s", "/", "a", "w", "s", "-", "s", "d", "k", "-", "g", "o", "-", "v", "2", "/", "s", "e", "r", "v", "i", "c", "e", "/", "d", "y", "n", "a", "m", "o", "d", "b", ".", "S", "c", "a", "n", "O", "u", "t", "p", "u", "t">>
\* "*github.com/aws/aws-sdk-go-v2/service/dynamodb.Client"
TyClient ==
    <<"*", "g", "i", "t", "h", "u", "b", ".", "c", "o", "m", "/", "a", "w", "s", "/", "a", "w", "s", "-", "s", "d", "k", "-", "g", "o", "-", "v", "2", "/", "s", "e", "r", "v", "i", "c", "e", "/", "d", "y", "n", "a", "m", "o", "d", "b", ".", "C", "l", "i", "e", "n", "t">>
\* "*gopkg.in/yaml.v3.Node"
TyYamlNode ==
    <<"*", "g", "o", "p", "k", "g", ".", "i", "n", "/", "y", "a", "m", "l", ".", "v", "3", ".", "N", "o", "d", "e">>
\* "error"
TyError ==
    <<"e", "r", "r", "o", "r">>
\* "string"
TyString ==
    <<"s", "t", "r", "i", "n", "g">>

\* a types.Object: kind is its dynamic type, hasPkg is Pkg() != nil, parentNil
\* is Parent() == nil, results the type strings of its signature's results
Object(kind, hasPkg, path, pkgName, name, parentNil, results) ==
    [kind |-> kind, hasPkg |-> hasPkg, PkgPath |-> path, PkgName |-> pkgName,
     name |-> name, parentNil |-> parentNil, results |-> results]

\* the methods of the service clients the example calls
ClientMethods ==
    { Object("Func", TRUE, PathSts, NameSts, FnGetCallerIdentity, TRUE,
             <<TyGetCallerIdentityOutput, TyError>>),
      Object("Func", TRUE, PathDynamodb, NameDynamodb, FnListTables, TRUE,
             <<TyListTablesOutput, TyError>>) }

\* methods of one name on two receiver types of one package (the paginators)
PaginatorMethods ==
    { Object("Func", TRUE, PathDynamodb, NameDynamodb, FnNextPage, TRUE,
             <<TyListTablesOutput, TyError>>),
      Object("Func", TRUE, PathDynamodb, NameDynamodb, FnNextPage, TRUE,
             <<TyScanOutput, TyError>>) }

\* methods of the service packages whose first result is not a pointer to a
\* type of a package with one dot in its path, or that have no result
OddMethods ==
    { Object("Func", TRUE, PathDynamodb, NameDynamodb, FnDecode, TRUE, <<TyYamlNode, TyError>>),
      Object("Func", TRUE, PathDynamodb, NameDynamodb, FnWait, TRUE, <<TyError>>),
      Object("Func", TRUE, PathSts, NameSts, FnReset, TRUE, <<>>) }

\* references the extractor skips: a package-level function, a method of a
\* package outside the filter, (error).Error, a struct field
OtherObjects ==
    { Object("Func", TRUE, PathDynamodb, NameDynamodb, FnNewFromConfig, FALSE, <<TyClient>>),
      Object("Func", TRUE, PathLog, NameLog, FnFatalf, TRUE, <<>>),
      Object("Func", FALSE, <<>>, <<>>, FnError, TRUE, <<TyString>>),
      Object("Var", TRUE, PathDynamodb, NameDynamodb, FnLimit, TRUE, <<>>) }

Objects == ClientMethods \cup PaginatorMethods \cup OddMethods \cup OtherObjects

NoObject == Object("none", FALSE, <<>>, <<>>, <<>>, FALSE, <<>>)

(***************************************************************************)
(* State.                                                                  *)
(***************************************************************************)
VARIABLES
    pc,         \* the statement Run (or ToTitle) is at
    exitAt,     \* the call whose failure ended the run with os.Exit(1)
    Writer,     \* opts.Writer: "os.Stdout" or "fileWriter"
    debug,      \* whether the default logger is enabled at debug level
    pkgsLeft,   \* the packages of pkgs the package loop has not reached yet
    resses,     \* map[string]PackageInfo
    fed,        \* the functions accepted so far, in the order the scan met them
    last,       \* obj, the object the loop over the Uses of a package is at
    sorted,     \* []PackageInfo returned by sortPackages
    buf,        \* the rendered text
    formatted,  \* the text imports.Process returned
    stdout,     \* what was written to os.Stdout
    stderr,     \* what the logger wrote to os.Stderr
    file,       \* what was written to the file of the fileWriter
    arg,        \* the argument of ToTitle
    ret         \* the result of ToTitle

vars ==
    <<pc, exitAt, Writer, debug, pkgsLeft, resses, fed, last, sorted, buf,
      formatted, stdout, stderr, file, arg, ret>>

\* a piece of text: what it is and the packages it was made from
Text(kind, doc) == [kind |-> kind, doc |-> doc]

NoText == Text("none", <<>>)

EmptyMap == [p \in {} |-> <<>>]

Init ==
    /\ pc = "load"
    /\ exitAt = ""
    /\ Writer \in {"os.Stdout", "fileWriter"}
    /\ debug \in BOOLEAN
    /\ pkgsLeft = 0
    /\ resses = EmptyMap
    /\ fed = <<>>
    /\ last = NoObject
    /\ sorted = <<>>
    /\ buf = NoText
    /\ formatted = NoText
    /\ stdout = <<>>
    /\ stderr = <<>>
    /\ file = <<>>
    /\ arg = <<>>
    /\ ret = <<>>

(***************************************************************************)
(* Run: load and scan.                                                     *)
(***************************************************************************)
\* log.Error(...); os.Exit(1)
Fatal(at) ==
    /\ pc' = "exit1"
    /\ exitAt' = at
    /\ stderr' = Append(stderr, Text(at, <<>>))

\* packages.Load and its error check
Load ==
    /\ pc = "load"
    /\ \/ /\ Fatal("packages.Load")
          /\ UNCHANGED pkgsLeft
       \/ /\ \E n \in 0..MaxPkgs : pkgsLeft' = n
          /\ pc' = "pkgs"
          /\ UNCHANGED <<exitAt, stderr>>
    /\ UNCHANGED <<Writer, debug, resses, fed, last, sorted, buf, formatted, stdout, file,
                   arg, ret>>

\* the head of the package loop: the next package and its Errors
NextPkg ==
    /\ pc = "pkgs"
    /\ IF pkgsLeft = 0
       THEN /\ pc' = "table"
            /\ UNCHANGED <<exitAt, stdout, pkgsLeft>>
       ELSE /\ pkgsLeft' = pkgsLeft - 1
            /\ \E errors \in BOOLEAN :
                  IF errors
                  THEN /\ stdout' = Append(stdout, Text("pkg.Errors", <<>>))
                       /\ pc' = "exit1"
                       /\ exitAt' = "pkg.Errors"
                  ELSE /\ pc' = "uses"
                       /\ UNCHANGED <<exitAt, stdout>>
    /\ UNCHANGED <<Writer, debug, resses, fed, last, sorted, buf, formatted, stderr, file,
                   arg, ret>>

\* a scan that takes methods of any package
AcceptedNoFilter(o) == o.kind = "Func" /\ o.hasPkg /\ o.parentNil

\* the nested conditions under which the scan takes an object
Accepted(o) == o.kind = "Func" /\ o.hasPkg /\ filter(o.PkgPath) /\ o.parentNil

\* f.Type().(*types.Signature): the type of a *types.Func is a signature
SigOK(o) == o.kind = "Func"

\* sig.Results().At(0) or the index [2] is out of range
Panics(o) == Len(o.results) = 0 \/ Len(Split(o.results[1], ".")) < 3

\* a FuncSig whose Return is the last component of the type string
funcSigLast(f) ==
    [FuncName |-> f.name,
     Return |-> Split(f.results[1], ".")[Len(Split(f.results[1], "."))]]

\* the FuncSig of an accepted function
funcSig(f) == [FuncName |-> f.name, Return |-> Split(f.results[1], ".")[3]]

\* an insertion that appends without looking
InsertAlways(m, f, sig) ==
    IF f.PkgPath \in DOMAIN m
    THEN [m EXCEPT ![f.PkgPath].FuncSigs = Append(@, sig)]
    ELSE (f.PkgPath :> [Name |-> f.PkgName, Path |-> f.PkgPath, FuncSigs |-> <<sig>>]) @@ m

\* an insertion that fills Name and Path of a new bucket the wrong way round
InsertSwapped(m, f, sig) ==
    IF f.PkgPath \in DOMAIN m
    THEN IF ~Contains(m[f.PkgPath].FuncSigs, sig)
         THEN [m EXCEPT ![f.PkgPath].FuncSigs = Append(@, sig)]
         ELSE m
    ELSE (f.PkgPath :> [Name |-> f.PkgPath, Path |-> f.PkgName, FuncSigs |-> <<sig>>]) @@ m

\* the insertion of a FuncSig in the bucket of the function's package
Insert(m, f, sig) ==
    IF f.PkgPath \in DOMAIN m
    THEN IF ~Contains(m[f.PkgPath].FuncSigs, sig)
         THEN [m EXCEPT ![f.PkgPath].FuncSigs = Append(@, sig)]
         ELSE m
    ELSE (f.PkgPath :> [Name |-> f.PkgName, Path |-> f.PkgPath, FuncSigs |-> <<sig>>]) @@ m

\* what the body of the loop over pkg.TypesInfo.Uses does with each object:
\* skip it, fail on the conversion of its type, panic on an index, or insert
Scan ==
    [o \in Objects |->
        IF ~Accepted(o) THEN [do |-> "continue", sig |-> <<>>]
        ELSE IF ~SigOK(o) THEN [do |-> "exit", sig |-> <<>>]
        ELSE IF Panics(o) THEN [do |-> "panic", sig |-> <<>>]
        ELSE [do |-> "insert", sig |-> funcSig(o)]]

\* the body of the loop over pkg.TypesInfo.Uses for one object; the map is
\* ranged over in any order and an object may be met more than once
Visit(o) ==
    /\ pc = "uses"
    /\ last' = o
    /\ CASE Scan[o].do = "continue" -> UNCHANGED <<pc, exitAt, stderr, resses, fed>>
         [] Scan[o].do = "exit" -> Fatal("failed to convert") /\ UNCHANGED <<resses, fed>>
         [] Scan[o].do = "panic" -> pc' = "panic" /\ UNCHANGED <<exitAt, stderr, resses, fed>>
         [] Scan[o].do = "insert" ->
                /\ Len(fed) < MaxObs
                /\ fed' = Append(fed, o)
                /\ resses' = Insert(resses, o, Scan[o].sig)
                /\ UNCHANGED <<pc, exitAt, stderr>>
    /\ UNCHANGED <<Writer, debug, pkgsLeft, sorted, buf, formatted, stdout, file, arg, ret>>

\* the end of the loop over the Uses of a package
EndUses ==
    /\ pc = "uses"
    /\ last' = NoObject
    /\ pc' = "pkgs"
    /\ UNCHANGED <<exitAt, Writer, debug, pkgsLeft, resses, fed, sorted, buf, formatted,
                   stdout, stderr, file, arg, ret>>

(***************************************************************************)
(* Run: sort, render, format, write.                                       *)
(***************************************************************************)
\* writePackageTable when the logger is enabled at debug level: the table
\* goes to os.Stdout
WriteTable ==
    /\ pc = "table"
    /\ stdout' = IF debug THEN Append(stdout, Text("packageTable", <<>>)) ELSE stdout
    /\ pc' = "sort"
    /\ UNCHANGED <<exitAt, Writer, debug, pkgsLeft, resses, fed, last, sorted, buf,
                   formatted, stderr, file, arg, ret>>

lessFuncName(x, y) == StrLess(x.FuncName, y.FuncName)

lessPath(a, b) == StrLess(a.Path, b.Path)

\* sort.Slice(s, less): s reordered so that no element is less than the one
\* before it; the sort is not stable, elements that compare equal come in any
\* order. The results of the sort of v.FuncSigs by FuncName
SortFuncSigs(s) ==
    {p \in Perms(s) : \A i \in 1..(Len(s) - 1) : ~lessFuncName(p[i + 1], p[i])}

\* the results of the sort of out by Path
SortOut(s) ==
    {p \in Perms(s) : \A i \in 1..(Len(s) - 1) : ~lessPath(p[i + 1], p[i])}

\* the orders in which a range over the map in meets its keys
RangeOrders(in) ==
    LET n == Cardinality(DOMAIN in)
    IN  {f \in [1..n -> DOMAIN in] : \A i, j \in 1..n : f[i] = f[j] => i = j}

\* a sortPackages that sorts the packages and leaves their FuncSigs as they are
sortPackagesOnly(in) ==
    UNION {SortOut([i \in 1..Len(f) |-> in[f[i]]]) : f \in RangeOrders(in)}

\* sortPackages: the results it may return
sortPackages(in) ==
    LET D == DOMAIN in
        sigs == {g \in [D -> UNION {SortFuncSigs(in[p].FuncSigs) : p \in D}] :
                    \A p \in D : g[p] \in SortFuncSigs(in[p].FuncSigs)}
    IN  UNION {SortOut([i \in 1..Len(f) |-> [in[f[i]] EXCEPT !.FuncSigs = g[f[i]]]]) :
                  f \in RangeOrders(in), g \in sigs}

\* sorted := sortPackages(resses); the FuncSigs of the map's values share
\* their arrays with the sorted copies, and are sorted with them
Sort ==
    /\ pc = "sort"
    /\ sorted' \in sortPackages(resses)
    /\ resses' = [p \in DOMAIN resses |->
                    CHOOSE v \in Range(sorted') : v.Path = resses[p].Path]
    /\ pc' = "parse"
    /\ UNCHANGED <<exitAt, Writer, debug, pkgsLeft, fed, last, buf, formatted, stdout,
                   stderr, file, arg, ret>>

\* template.New("mock").Funcs(templateFuncs()).Parse(fullTemplate)
ParseTemplate ==
    /\ pc = "parse"
    /\ \/ Fatal("template.Parse")
       \/ pc' = "execute" /\ UNCHANGED <<exitAt, stderr>>
    /\ UNCHANGED <<Writer, debug, pkgsLeft, resses, fed, last, sorted, buf, formatted,
                   stdout, file, arg, ret>>

\* tmpl.Execute(&buf, t)
ExecuteTemplate ==
    /\ pc = "execute"
    /\ \/ Fatal("tmpl.Execute") /\ UNCHANGED buf
       \/ /\ buf' = Text("rendered", sorted)
          /\ pc' = "format"
          /\ UNCHANGED <<exitAt, stderr>>
    /\ UNCHANGED <<Writer, debug, pkgsLeft, resses, fed, last, sorted, formatted,
                   stdout, file, arg, ret>>

\* imports.Process; on an error the rendered text is logged at debug level
Format ==
    /\ pc = "format"
    /\ \/ /\ pc' = "exit1"
          /\ exitAt' = "imports.Process"
          /\ stderr' = (IF debug THEN Append(stderr, buf) ELSE stderr)
                            \o <<Text("imports.Process", <<>>)>>
          /\ UNCHANGED formatted
       \/ /\ formatted' = Text("formatted", buf.doc)
          /\ pc' = "write"
          /\ UNCHANGED <<exitAt, stderr>>
    /\ UNCHANGED <<Writer, debug, pkgsLeft, resses, fed, last, sorted, buf, stdout,
                   file, arg, ret>>

\* the bytes handed to opts.Writer.Write
Written == formatted

\* opts.Writer.Write(formatted) and the return of Run to main, which logs an
\* error and exits; a write that fails may have written a part of its bytes
Write ==
    /\ pc = "write"
    /\ \/ /\ Writer = "os.Stdout"
          /\ stdout' = Append(stdout, Written)
          /\ pc' = "done"
          /\ UNCHANGED <<exitAt, stderr, file>>
       \/ /\ Writer = "os.Stdout"
          /\ stdout' = Append(stdout, Text("short write", Written.doc))
          /\ Fatal("Writer.Write")
          /\ UNCHANGED file
       \/ /\ Writer = "fileWriter"
          /\ Fatal("Writer.Write")
          /\ UNCHANGED <<stdout, file>>
       \/ /\ Writer = "fileWriter"
          /\ file' = <<Written>>
          /\ pc' = "done"
          /\ UNCHANGED <<exitAt, stderr, stdout>>
       \/ /\ Writer = "fileWriter"
          /\ file' = <<Text("short write", Written.doc)>>
          /\ Fatal("Writer.Write")
          /\ UNCHANGED stdout
    /\ UNCHANGED <<Writer, debug, pkgsLeft, resses, fed, last, sorted, buf, formatted,
                   arg, ret>>

Next ==
    \/ Load
    \/ NextPkg
    \/ \E o \in Objects : Visit(o)
    \/ EndUses
    \/ WriteTable
    \/ Sort
    \/ ParseTemplate
    \/ ExecuteTemplate
    \/ Format
    \/ Write

Spec == Init /\ [][Next]_vars

\* what the destination of the output has received
Destination == IF Writer = "os.Stdout" THEN stdout ELSE file

(***************************************************************************)
(* The template function ToTitle on package short names.                   *)
(***************************************************************************)
\* "somenewservice"
NameSomenewservice ==
    <<"s", "o", "m", "e", "n", "e", "w", "s", "e", "r", "v", "i", "c", "e">>
\* "Somenewservice"
TitleSomenewservice ==
    <<"S", "o", "m", "e", "n", "e", "w", "s", "e", "r", "v", "i", "c", "e">>

NameLetters == {"s", "t", "e", "c", "S"}

NameDigits == {"2"}

\* package short names: identifiers of letters and digits that start with a letter
Names ==
    {n \in UNION {[1..k -> NameLetters \cup NameDigits] : k \in 1..MaxNameLen} :
        n[1] \in NameLetters}
        \cup {NameDynamodb, NameCloudformation, NameSomenewservice}

NamingInit ==
    /\ pc = "ToTitle"
    /\ arg \in Names
    /\ ret = <<>>
    /\ exitAt = ""
    /\ Writer = "os.Stdout"
    /\ debug = FALSE
    /\ pkgsLeft = 0
    /\ resses = EmptyMap
    /\ fed = <<>>
    /\ last = NoObject
    /\ sorted = <<>>
    /\ buf = NoText
    /\ formatted = NoText
    /\ stdout = <<>>
    /\ stderr = <<>>
    /\ file = <<>>

CallToTitle ==
    /\ pc = "ToTitle"
    /\ ret' = ToTitle(arg)
    /\ pc' = "ToTitle.return"
    /\ UNCHANGED <<exitAt, Writer, debug, pkgsLeft, resses, fed, last, sorted, buf,
                   formatted, stdout, stderr, file, arg>>

NamingNext == CallToTitle

NamingSpec == NamingInit /\ [][NamingNext]_vars

(***************************************************************************)
(* The aggregation as a function of the sequence of accepted functions.    *)
(***************************************************************************)
\* the observation an accepted function gives
Obs(f) ==
    [Path |-> f.PkgPath, Name |-> f.PkgName, FuncName |-> f.name,
     Return |-> Scan[f].sig.Return]

\* the map after the insertions of the functions of fs, in their order
Aggregate(fs) ==
    LET F[i \in 0..Len(fs)] ==
            IF i = 0 THEN EmptyMap ELSE Insert(F[i - 1], fs[i], Scan[fs[i]].sig)
    IN  F[Len(fs)]

\* fs without the functions whose observation an earlier one gave already
FirstOccurrences(fs) ==
    LET keep == {i \in 1..Len(fs) : \A j \in 1..(i - 1) : Obs(fs[j]) # Obs(fs[i])}
        at(k) == CHOOSE i \in keep : Cardinality({j \in keep : j < i}) = k - 1
    IN  [k \in 1..Cardinality(keep) |-> fs[at(k)]]

Scanning == pc \in {"pkgs", "uses", "table", "sort"}

Sorted == pc \in {"parse", "execute", "format", "write", "done"}

(***************************************************************************)
(* Claims.                                                                 *)
(***************************************************************************)
\* "GetCallerIdentityOutput"
RetGetCallerIdentityOutput ==
    <<"G", "e", "t", "C", "a", "l", "l", "e", "r", "I", "d", "e", "n", "t", "i", "t", "y", "O", "u", "t", "p", "u", "t">>
\* "v3"
RetV3 ==
    <<"v", "3">>

\* C1: no bucket of the map holds two entries with the same function name;
\* of the observations of one function name of one package path, only the
\* first seen is kept
C1_UniqueFuncNames ==
    \A p \in DOMAIN resses :
        /\ \A i, j \in 1..Len(resses[p].FuncSigs) :
              resses[p].FuncSigs[i].FuncName = resses[p].FuncSigs[j].FuncName => i = j
        /\ \A i \in 1..Len(resses[p].FuncSigs) :
              \E k \in 1..Len(fed) :
                 /\ fed[k].PkgPath = p
                 /\ Scan[fed[k]].sig = resses[p].FuncSigs[i]
                 /\ \A j \in 1..(k - 1) :
                       ~(fed[j].PkgPath = p /\ fed[j].name = fed[k].name)

\* C2: once sorted, the result is the only one sortPackages can give for the
\* aggregation of the accepted functions fed in any order
C2_OrderIndependent ==
    Sorted => \A fs \in Perms(fed) : sortPackages(Aggregate(fs)) = {sorted}

\* C3: in the slice sortPackages returned, adjacent packages are in the order
\* of their paths and, in each package, adjacent signatures in the order of
\* their function names
C3_SortInvariant ==
    Sorted =>
        /\ \A i \in 1..(Len(sorted) - 1) : StrLeq(sorted[i].Path, sorted[i + 1].Path)
        /\ \A i \in 1..Len(sorted) :
              \A k \in 1..(Len(sorted[i].FuncSigs) - 1) :
                 StrLeq(sorted[i].FuncSigs[k].FuncName, sorted[i].FuncSigs[k + 1].FuncName)

\* two packages met in descending order of their paths, and in one of them two
\* functions met in descending order of their names, have been sorted
C3_Witness ==
    /\ pc = "parse"
    /\ Len(sorted) = 2
    /\ \E i, j \in 1..Len(fed) : i < j /\ StrLess(fed[j].PkgPath, fed[i].PkgPath)
    /\ \E i, j \in 1..Len(fed) :
          i < j /\ fed[i].PkgPath = fed[j].PkgPath /\ StrLess(fed[j].name, fed[i].name)

\* the functions that have a package whose path matches the filter and a nil
\* parent scope
Qualifying ==
    {o \in Objects :
        /\ o.kind = "Func"
        /\ o.hasPkg
        /\ MatchString(filterPattern, o.PkgPath)
        /\ o.parentNil}

\* C4: an observation comes only from a function that has a package whose
\* path matches the filter and whose parent scope is nil; every entry of the
\* map comes from such a function; after any other object, one without a
\* package among them, the scan goes on
C4_FilterCorrect ==
    /\ \A i \in 1..Len(fed) : fed[i] \in Qualifying
    /\ \A p \in DOMAIN resses :
          \A k \in 1..Len(resses[p].FuncSigs) :
             \E i \in 1..Len(fed) :
                fed[i].PkgPath = p /\ fed[i].name = resses[p].FuncSigs[k].FuncName
    /\ (last # NoObject /\ last \notin Qualifying) => pc = "uses" /\ ~Contains(fed, last)

\* a function without a package was met after an accepted one, and the scan goes on
C4_Witness ==
    /\ pc = "uses"
    /\ last.kind = "Func"
    /\ ~last.hasPkg
    /\ fed # <<>>

\* C5: a function that passes the filters and has no result ends the run by
\* the logged error and exit used for a failed conversion; it is not
\* recorded and nothing is written
C5_NoResultIsFatal ==
    (last \in Qualifying /\ Len(last.results) = 0) =>
        /\ pc = "exit1"
        /\ exitAt = "failed to convert"
        /\ ~Contains(fed, last)
        /\ Destination = <<>>

\* C6: the destination has received nothing or, at the end of a run in which
\* every step succeeded, the formatted text and nothing else; after a failed
\* load, a package with errors, a failed render or a failed format it has
\* received nothing; the rendered text is never written to it
C6_AllOrNothing ==
    /\ \/ Destination = <<>>
       \/ pc = "done" /\ formatted.kind = "formatted" /\ Destination = <<formatted>>
    /\ (pc = "exit1" /\ exitAt \in {"packages.Load", "pkg.Errors", "template.Parse",
                                    "tmpl.Execute", "imports.Process"})
            => Destination = <<>>
    /\ \A i \in 1..Len(Destination) : Destination[i].kind # "rendered"

\* C7: ToTitle returns the entry of serviceNames for a key of the table
\* ("sts" gives "STS"), not its title-cased form, and the title-cased form
\* of any other name
C7_ToTitleOverride ==
    pc = "ToTitle.return" =>
        /\ arg = NameSts => ret = TitleSTS
        /\ arg = NameEc2 => ret = TitleEC2
        /\ arg = NameDynamodb => ret = TitleDynamoDB
        /\ arg = NameCloudformation => ret = TitleCloudFormation
        /\ arg \in DOMAIN serviceNames => ret = serviceNames[arg] /\ ret # Title(arg)
        /\ arg = NameSomenewservice => ret = TitleSomenewservice
        /\ arg \notin {NameSts, NameEc2, NameDynamodb, NameCloudformation} =>
              /\ Len(ret) = Len(arg)
              /\ ret[1] = ToUpperChar(arg[1])
              /\ \A i \in 2..Len(arg) : ret[i] = ToLowerChar(arg[i])

\* ToTitle has returned "STS" for "sts"
C7_Witness == pc = "ToTitle.return" /\ arg = NameSts /\ ret = TitleSTS

\* C8: during the scan the map is the one the accepted functions give when
\* each observation is fed once, at its first place; an observation fed
\* twice and nothing else gives one bucket with one signature
C8_DedupIdempotent ==
    Scanning =>
        /\ resses = Aggregate(FirstOccurrences(fed))
        /\ (Len(fed) = 2 /\ Obs(fed[1]) = Obs(fed[2])) =>
              /\ DOMAIN resses = {fed[1].PkgPath}
              /\ Len(resses[fed[1].PkgPath].FuncSigs) = 1

\* an observation was fed, then another of the same package, then the first again
C8_Witness ==
    /\ pc = "uses"
    /\ Len(fed) = 3
    /\ Obs(fed[3]) = Obs(fed[1])
    /\ Obs(fed[2]) # Obs(fed[1])
    /\ fed[2].PkgPath = fed[1].PkgPath
    /\ Len(resses[fed[1].PkgPath].FuncSigs) = 2

\* C9: the map has one bucket for each package path among the accepted
\* functions; its Path is its key, its Name the package name of the first
\* accepted function of that path, and its FuncSigs is not empty
C9_OneBucketPerPath ==
    /\ DOMAIN resses = {fed[i].PkgPath : i \in 1..Len(fed)}
    /\ \A p \in DOMAIN resses :
          /\ resses[p].Path = p
          /\ \E i \in 1..Len(fed) :
                /\ fed[i].PkgPath = p
                /\ \A j \in 1..(i - 1) : fed[j].PkgPath # p
                /\ resses[p].Name = fed[i].PkgName
          /\ Len(resses[p].FuncSigs) >= 1

\* functions of two packages were accepted, two of them of one package
C9_Witness ==
    /\ Len(fed) = 3
    /\ Cardinality(DOMAIN resses) = 2
    /\ fed[1].PkgPath # fed[2].PkgPath
    /\ fed[3].PkgPath = fed[1].PkgPath

\* r is the third of the pieces the separator "." cuts t into
IsThirdComponent(r, t) ==
    LET dots == {k \in 1..Len(t) : t[k] = "."}
    IN  /\ \A i \in 1..Len(r) : r[i] # "."
        /\ \E i, j \in dots :
              /\ i < j
              /\ \A k \in dots : k >= i /\ (k > i => k >= j)
              /\ j + Len(r) <= Len(t)
              /\ r = SubSeq(t, j + 1, j + Len(r))
              /\ j + Len(r) = Len(t) \/ t[j + Len(r) + 1] = "."

\* the pieces of the type string of the first result of each function that
\* are its third component
ThirdComponents ==
    [o \in {f \in Objects : f.kind = "Func" /\ f.results # <<>>} |->
        LET t == o.results[1]
        IN  {r \in {SubSeq(t, a, b) : a, b \in 1..Len(t)} : IsThirdComponent(r, t)}]

\* C10: for every accepted function the map records, under its simple name,
\* the third dot-separated component of the type string of its first result,
\* and the map records nothing else
C10_ReturnIsThirdComponent ==
    /\ \A i \in 1..Len(fed) :
          \E k \in 1..Len(resses[fed[i].PkgPath].FuncSigs) :
             LET sig == resses[fed[i].PkgPath].FuncSigs[k]
             IN  sig.FuncName = fed[i].name /\ sig.Return \in ThirdComponents[fed[i]]
    /\ \A p \in DOMAIN resses :
          \A k \in 1..Len(resses[p].FuncSigs) :
             \E i \in 1..Len(fed) :
                /\ fed[i].PkgPath = p
                /\ fed[i].name = resses[p].FuncSigs[k].FuncName
                /\ resses[p].FuncSigs[k].Return \in ThirdComponents[fed[i]]
    /\ Contains(fed, Object("Func", TRUE, PathSts, NameSts, FnGetCallerIdentity, TRUE,
                            <<TyGetCallerIdentityOutput, TyError>>))
          => \E k \in 1..Len(resses[PathSts].FuncSigs) :
                resses[PathSts].FuncSigs[k] =
                    [FuncName |-> FnGetCallerIdentity, Return |-> RetGetCallerIdentityOutput]

\* a function whose first result has a type string of four components was
\* accepted and "v3" recorded for it
C10_Witness ==
    /\ \E i \in 1..Len(fed) : Len(Split(fed[i].results[1], ".")) = 4
    /\ \E k \in 1..Len(resses[PathDynamodb].FuncSigs) :
          resses[PathDynamodb].FuncSigs[k] = [FuncName |-> FnDecode, Return |-> RetV3]

=============================================================================
